---- MODULE Spec2Model ----
(***************************************************************************)
(* Model of the day-splitting tool of log_splitter (src/src/index.ts):     *)
(* date pattern registry, format detector, date extractor and the          *)
(* day router/writer driven by processAll.                                 *)
(*                                                                         *)
(* A JavaScript string is a tuple of one-character strings; a line of a    *)
(* file, a date and a bucket key are all such tuples.  The regular         *)
(* expressions of the registry are kept as lists of atoms and run by a     *)
(* small backtracking matcher, so that matching, capture groups and the    *)
(* normalizers are computed the way the code computes them.                *)
(*                                                                         *)
(* The search tool (second part of src/src/index.ts) and the line          *)
(* splitter (src/src/main.js, src/index.js) are modelled as functions of   *)
(* the lines of their input file.                                          *)
(***************************************************************************)
EXTENDS Integers, Sequences, FiniteSets, TLC

\* ------------------------------------------------------------------------
\* Bounds of the model
\* ------------------------------------------------------------------------

\* number of lines of an input file
MaxLines == 3

\* number of input files in the directory
MaxFiles == 2

\* the number of lines after which the flush cycle of splitFileByDay runs
\* (200000 in the code, brought down to the size of the files of the model)
FlushEvery == 2

\* the largest --context of the search tool
MaxContext == 3

\* the longest generated name of an input file, in characters
MaxName == 3

\* the number of buffered lines from which on a WriteStream's write returns
\* false (its highWaterMark, counted in lines)
HighWaterMark == 2

\* number of filler lines appended to a sample handed to chooseExtractor
\* (0 or PadLines), so that samples longer than the small-sample limit occur
PadLines == 11

\* ------------------------------------------------------------------------
\* Characters and strings
\* ------------------------------------------------------------------------

\* JavaScript null and undefined: one-element tuples that no string equals
\* (a string is a tuple of one-character strings)
Null == <<"null">>

Undefined == <<"undefined">>

DigitChars == <<"0", "1", "2", "3", "4", "5", "6", "7", "8", "9">>

UpperChars == <<"A", "B", "C", "D", "E", "F", "G", "H", "I", "J", "K", "L", "M",
                "N", "O", "P", "Q", "R", "S", "T", "U", "V", "W", "X", "Y", "Z">>

LowerChars == <<"a", "b", "c", "d", "e", "f", "g", "h", "i", "j", "k", "l", "m",
                "n", "o", "p", "q", "r", "s", "t", "u", "v", "w", "x", "y", "z">>

Range(f) == {f[i] : i \in DOMAIN f}

\* \d
Digit == Range(DigitChars)

\* [A-Za-z]
Alpha == Range(UpperChars) \cup Range(LowerChars)

\* \s (the white space of the model's alphabet)
Space == {" ", "\t"}

\* \w, which decides \b
WordChar == Alpha \cup Digit \cup {"_"}

UpperSet == Range(UpperChars)

\* String.prototype.toLowerCase on one character
LowerChar(c) ==
    IF c \in UpperSet
    THEN LowerChars[CHOOSE i \in DOMAIN UpperChars : UpperChars[i] = c]
    ELSE c

\* String.prototype.toLowerCase
ToLowerCase(s) == [i \in DOMAIN s |-> LowerChar(s[i])]

DigitVal(c) == (CHOOSE i \in DOMAIN DigitChars : DigitChars[i] = c) - 1

\* parseInt(s, 10) on a string of decimal digits
RECURSIVE ParseInt(_)
ParseInt(s) ==
    IF s = <<>> THEN 0
    ELSE 10 * ParseInt(SubSeq(s, 1, Len(s) - 1)) + DigitVal(s[Len(s)])

\* String(n) for a natural number
RECURSIVE NumToString(_)
NumToString(n) ==
    IF n < 10 THEN <<DigitChars[n + 1]>>
    ELSE NumToString(n \div 10) \o <<DigitChars[(n % 10) + 1]>>

\* s.padStart(len, '0')
RECURSIVE PadStart(_, _)
PadStart(s, len) == IF Len(s) >= len THEN s ELSE PadStart(<<"0">> \o s, len)

\* ------------------------------------------------------------------------
\* Regular expressions: a pattern is a list of atoms
\*   cls: between min and max characters of a set (greedy), captured as
\*        group grp when grp > 0
\*   wb : \b
\*   opt: (?: sub )?
\* ------------------------------------------------------------------------

Cls(set, min, max, grp) ==
    [k |-> "cls", set |-> set, min |-> min, max |-> max, grp |-> grp]

Lit(c) == Cls({c}, 1, 1, 0)

WordBoundary == [k |-> "wb"]

Opt(sub) == [k |-> "opt", sub |-> sub]

NumGroups == 6

NoMatch == [ok |-> FALSE, index |-> 0, groups |-> [g \in 1..NumGroups |-> Undefined]]

IsWordAt(s, i) == i >= 1 /\ i <= Len(s) /\ s[i] \in WordChar

\* the longest run of characters of set starting at s[i], at most max long
RECURSIVE RunLen(_, _, _, _)
RunLen(s, i, set, max) ==
    IF max = 0 \/ i > Len(s) \/ s[i] \notin set THEN 0
    ELSE 1 + RunLen(s, i + 1, set, max - 1)

RECURSIVE MatchHere(_, _, _, _)
RECURSIVE MatchCls(_, _, _, _, _, _)

\* match the atoms at position i of s; groups holds the captures so far
MatchHere(atoms, s, i, groups) ==
    IF atoms = <<>> THEN [ok |-> TRUE, index |-> i, groups |-> groups]
    ELSE LET a == Head(atoms)
             rest == Tail(atoms)
         IN  CASE a.k = "wb" ->
                    IF IsWordAt(s, i - 1) # IsWordAt(s, i)
                    THEN MatchHere(rest, s, i, groups)
                    ELSE NoMatch
               [] a.k = "opt" ->
                    LET r == MatchHere(a.sub \o rest, s, i, groups)
                    IN  IF r.ok THEN r ELSE MatchHere(rest, s, i, groups)
               [] a.k = "cls" ->
                    LET run == RunLen(s, i, a.set, a.max)
                    IN  IF run < a.min THEN NoMatch
                        ELSE MatchCls(a, rest, s, i, groups, run)

\* greedy quantifier with backtracking: the longest n, a.min <= n <= run, for
\* which the rest of the pattern matches
MatchCls(a, rest, s, i, groups, n) ==
    LET g == IF a.grp > 0
             THEN [groups EXCEPT ![a.grp] = SubSeq(s, i, i + n - 1)]
             ELSE groups
        r == MatchHere(rest, s, i + n, g)
    IN  IF r.ok THEN r
        ELSE IF n > a.min THEN MatchCls(a, rest, s, i, groups, n - 1)
        ELSE NoMatch

RECURSIVE ExecFrom(_, _, _)
ExecFrom(atoms, s, i) ==
    IF i > Len(s) + 1 THEN NoMatch
    ELSE LET r == MatchHere(atoms, s, i, NoMatch.groups)
         IN  IF r.ok THEN [r EXCEPT !.index = i] ELSE ExecFrom(atoms, s, i + 1)

\* RegExp.prototype.exec of a regex without the g flag: the leftmost match;
\* ok is FALSE for a null result, groups[g] is m[g]
RegexExec(atoms, s) == ExecFrom(atoms, s, 1)

\* ------------------------------------------------------------------------
\* Input texts
\* ------------------------------------------------------------------------

\* "2025-01-01 start"
LineIsoA ==
    <<"2", "0", "2", "5", "-", "0", "1", "-", "0", "1", " ", "s", "t",
    "a", "r", "t">>

\* "no date here"
LineNoDate ==
    <<"n", "o", " ", "d", "a", "t", "e", " ", "h", "e", "r", "e">>

\* "2025-01-02 end"
LineIsoB ==
    <<"2", "0", "2", "5", "-", "0", "1", "-", "0", "2", " ", "e", "n",
    "d">>

\* "29-Xxx-2025 bad": a dd-mon-yyyy match whose month token is no month
LineBadMon ==
    <<"2", "9", "-", "X", "x", "x", "-", "2", "0", "2", "5", " ", "b",
    "a", "d">>

\* "Aug 9 14:23:45 up": a syslog line, without a year
LineSyslog ==
    <<"A", "u", "g", " ", "9", " ", "1", "4", ":", "2", "3", ":", "4",
    "5", " ", "u", "p">>

\* "2025/01/03 x"
LineYmd ==
    <<"2", "0", "2", "5", "/", "0", "1", "/", "0", "3", " ", "x">>

\* "03/01/2025 y"
LineDmy ==
    <<"0", "3", "/", "0", "1", "/", "2", "0", "2", "5", " ", "y">>

\* "29-aug-2025 ok"
LineDdMon ==
    <<"2", "9", "-", "a", "u", "g", "-", "2", "0", "2", "5", " ", "o",
    "k">>

\* "Dec 7, 2024 01:02"
LineMonDd ==
    <<"D", "e", "c", " ", "7", ",", " ", "2", "0", "2", "4", " ", "0",
    "1", ":", "0", "2">>

\* "29-Xxx-2025 2025-01-05": a bad month token followed by a loose date
LineBadMonLoose ==
    <<"2", "9", "-", "X", "x", "x", "-", "2", "0", "2", "5", " ", "2",
    "0", "2", "5", "-", "0", "1", "-", "0", "5">>

\* "2025-01/04 z": the two separators differ
LineMixed ==
    <<"2", "0", "2", "5", "-", "0", "1", "/", "0", "4", " ", "z">>

\* "Foo 9 14:23:45": syslog layout, no month of that name
LineBadSyslog ==
    <<"F", "o", "o", " ", "9", " ", "1", "4", ":", "2", "3", ":", "4",
    "5">>

\* the default of --unknown-bucket
BucketUnknown ==
    <<"u", "n", "k", "n", "o", "w", "n">>

\* an --unknown-bucket that has the shape of a date
BucketDate ==
    <<"2", "0", "2", "5", "-", "0", "1", "-", "0", "1">>

\* "Xxx 7, 2024 01:02": mon dd, yyyy layout, no month of that name
LineBadMonDd ==
    <<"X", "x", "x", " ", "7", ",", " ", "2", "0", "2", "4", " ", "0", "1",
    ":", "0", "2">>

\* the lines the input files are made of
Lexicon == {LineIsoA, LineNoDate, LineIsoB, LineSyslog, LineBadSyslog}

\* the lines the detector and the extractor are applied to on their own
WideLexicon ==
    Lexicon \cup {LineYmd, LineDmy, LineDdMon, LineMonDd, LineBadMonLoose,
                  LineMixed, LineBadMon, LineBadMonDd}

\* ------------------------------------------------------------------------
\* Date pattern registry
\* ------------------------------------------------------------------------

\* a quantifier without an upper limit (+)
Unbounded == -1

MONTHS == << <<"J", "a", "n">>, <<"F", "e", "b">>, <<"M", "a", "r">>,
             <<"A", "p", "r">>, <<"M", "a", "y">>, <<"J", "u", "n">>,
             <<"J", "u", "l">>, <<"A", "u", "g">>, <<"S", "e", "p">>,
             <<"O", "c", "t">>, <<"N", "o", "v">>, <<"D", "e", "c">> >>

\* x.toLowerCase() for every x of MONTHS
LowerMonths == [i \in DOMAIN MONTHS |-> ToLowerCase(MONTHS[i])]

\* MonthIndex that takes a token that is no month for the first month
MonthIndexGuess(tok) ==
    LET t == ToLowerCase(tok)
        hits == {i \in DOMAIN MONTHS : LowerMonths[i] = t}
    IN  IF hits = {} THEN 0
        ELSE (CHOOSE i \in hits : \A j \in hits : i <= j) - 1

\* MONTHS.findIndex((x) => x.toLowerCase() === tok.toLowerCase()), 0-based,
\* -1 when no month has that abbreviation
MonthIndex(tok) ==
    LET t == ToLowerCase(tok)
        hits == {i \in DOMAIN MONTHS : LowerMonths[i] = t}
    IN  IF hits = {} THEN -1
        ELSE (CHOOSE i \in hits : \A j \in hits : i <= j) - 1

\* (\d{2}):(\d{2})(?::(\d{2}))?  with groups g, g+1, g+2
ClockAtoms(g) ==
    << Cls(Digit, 2, 2, g), Lit(":"), Cls(Digit, 2, 2, g + 1),
       Opt(<< Lit(":"), Cls(Digit, 2, 2, g + 2) >>) >>

\* (?:[ T](\d{2}):(\d{2})(?::(\d{2}))?)?
OptTime == << Opt(<< Cls({" ", "T"}, 1, 1, 0) >> \o ClockAtoms(4)) >>

\* /(\d{4})-(\d{2})-(\d{2})(?:[ T](\d{2}):(\d{2})(?::(\d{2}))?)?/
IsoRegex ==
    << Cls(Digit, 4, 4, 1), Lit("-"), Cls(Digit, 2, 2, 2), Lit("-"),
       Cls(Digit, 2, 2, 3) >> \o OptTime

\* /(\d{4})\/(\d{2})\/(\d{2})(?:[ T](\d{2}):(\d{2})(?::(\d{2}))?)?/
YmdSlashRegex ==
    << Cls(Digit, 4, 4, 1), Lit("/"), Cls(Digit, 2, 2, 2), Lit("/"),
       Cls(Digit, 2, 2, 3) >> \o OptTime

\* /(\d{2})\/(\d{2})\/(\d{4})(?:[ T](\d{2}):(\d{2})(?::(\d{2}))?)?/
DmySlashRegex ==
    << Cls(Digit, 2, 2, 1), Lit("/"), Cls(Digit, 2, 2, 2), Lit("/"),
       Cls(Digit, 4, 4, 3) >> \o OptTime

\* /(\d{2})-([A-Za-z]{3})-(\d{4})(?:[ T](\d{2}):(\d{2})(?::(\d{2}))?)?/
DdMonYyyyRegex ==
    << Cls(Digit, 2, 2, 1), Lit("-"), Cls(Alpha, 3, 3, 2), Lit("-"),
       Cls(Digit, 4, 4, 3) >> \o OptTime

\* /([A-Za-z]{3})\s+(\d{1,2}),\s+(\d{4})\s+(\d{2}):(\d{2})(?::(\d{2}))?/
MonDdYyyyRegex ==
    << Cls(Alpha, 3, 3, 1), Cls(Space, 1, Unbounded, 0), Cls(Digit, 1, 2, 2),
       Lit(","), Cls(Space, 1, Unbounded, 0), Cls(Digit, 4, 4, 3),
       Cls(Space, 1, Unbounded, 0) >> \o ClockAtoms(4)

\* /\b([A-Za-z]{3})\s+(\d{1,2})\s+(\d{2}):(\d{2}):(\d{2})\b/
SyslogRegex ==
    << WordBoundary, Cls(Alpha, 3, 3, 1), Cls(Space, 1, Unbounded, 0),
       Cls(Digit, 1, 2, 2), Cls(Space, 1, Unbounded, 0), Cls(Digit, 2, 2, 3),
       Lit(":"), Cls(Digit, 2, 2, 4), Lit(":"), Cls(Digit, 2, 2, 5),
       WordBoundary >>

\* the registry, in registration order; an extractor is referred to by its
\* index in this list, and 0 stands for "no extractor" (null)
extractors ==
    << [name |-> "iso-8601", regex |-> IsoRegex],
       [name |-> "yyyy/mm/dd", regex |-> YmdSlashRegex],
       [name |-> "dd/mm/yyyy", regex |-> DmySlashRegex],
       [name |-> "dd-mon-yyyy", regex |-> DdMonYyyyRegex],
       [name |-> "mon dd, yyyy", regex |-> MonDdYyyyRegex],
       [name |-> "syslog-mon dd hh:mm:ss", regex |-> SyslogRegex] >>

NoExtractor == 0

\* the matches of the registry's patterns on the lines of the lexicon,
\* computed once
ExecTable ==
    [e \in DOMAIN extractors |->
        [l \in WideLexicon |-> RegexExec(extractors[e].regex, l)]]

\* ex.regex.exec(line) for the extractor of index e
Exec(e, line) ==
    IF line \in WideLexicon THEN ExecTable[e][line]
    ELSE RegexExec(extractors[e].regex, line)

Dash == <<"-">>

\* `${y}-${m}-${d}`
DateString(y, m, d) == y \o Dash \o m \o Dash \o d

\* the month number mon + 1 as two digits
MonthString(mon) == PadStart(NumToString(mon + 1), 2)

\* the day number without its padding
DayStringBare(dd) == NumToString(ParseInt(dd))

\* String(parseInt(dd, 10)).padStart(2, '0')
DayString(dd) == PadStart(NumToString(ParseInt(dd)), 2)

\* ex.toISODate(m) for the extractor of index ex and the match m; nowYear is
\* what new Date().getFullYear() returns at the time of the call
ToISODate(ex, m, nowYear) ==
    LET g == m.groups
    IN  CASE ex = 1 -> DateString(g[1], g[2], g[3])
          [] ex = 2 -> DateString(g[1], g[2], g[3])
          [] ex = 3 -> DateString(g[3], g[2], g[1])
          [] ex = 4 ->
                LET mon == MonthIndex(g[2])
                IN  IF mon = -1 THEN Null
                    ELSE DateString(g[3], MonthString(mon), g[1])
          [] ex = 5 ->
                LET mon == MonthIndex(g[1])
                IN  IF mon = -1 THEN Null
                    ELSE DateString(g[3], MonthString(mon), DayString(g[2]))
          [] ex = 6 ->
                LET mon == MonthIndex(g[1])
                IN  IF mon = -1 THEN Null
                    ELSE DateString(NumToString(nowYear), MonthString(mon),
                                    DayString(g[2]))

\* ------------------------------------------------------------------------
\* Format detector
\* ------------------------------------------------------------------------

\* Buffer.byteLength of a line of the model's (ASCII) alphabet
ByteLength(line) == Len(line)

\* the number of lines the for-await loop of sampleLines pushes: it stops
\* after the first line at which a limit is reached, or at the end of file
RECURSIVE SampleCount(_, _, _, _, _)
SampleCount(file, n, bytes, maxLines, maxBytes) ==
    IF n >= Len(file) THEN n
    ELSE LET b == bytes + ByteLength(file[n + 1])
         IN  IF n + 1 >= maxLines \/ b >= maxBytes THEN n + 1
             ELSE SampleCount(file, n + 1, b, maxLines, maxBytes)

sampleLines(file, maxLines, maxBytes) ==
    SubSeq(file, 1, SampleCount(file, 0, 0, maxLines, maxBytes))

\* counts.get(ex.name) after the counting loop
MatchCounts(lines) ==
    [e \in DOMAIN extractors |->
        Cardinality({i \in DOMAIN lines : Exec(e, lines[i]).ok})]

\* Better that lets a later pattern replace an equal count
BetterOrEqual(c, bestCount) == c >= bestCount

\* c > bestCount
Better(c, bestCount) == c > bestCount

\* the selection loop over the registry, from extractor e on
RECURSIVE BestFrom(_, _, _, _)
BestFrom(counts, e, best, bestCount) ==
    IF e > Len(extractors) THEN [best |-> best, bestCount |-> bestCount]
    ELSE IF Better(counts[e], bestCount)
         THEN BestFrom(counts, e + 1, e, counts[e])
         ELSE BestFrom(counts, e + 1, best, bestCount)

\* the sample size up to which one match is enough for the confidence gate
SmallSample == 10

\* the match count that passes the confidence gate
MinConfidence == 3

\* Accept with the confidence gate as the only way to be accepted
AcceptGated(best, bestCount, n) ==
    IF best # NoExtractor /\ (bestCount >= MinConfidence \/ n <= SmallSample)
    THEN best
    ELSE NoExtractor

\* the two return statements of chooseExtractor
Accept(best, bestCount, n) ==
    IF best # NoExtractor /\ (bestCount >= MinConfidence \/ n <= SmallSample)
    THEN best
    ELSE IF bestCount > 0 THEN best ELSE NoExtractor

chooseExtractor(lines) ==
    LET b == BestFrom(MatchCounts(lines), 1, NoExtractor, 0)
    IN  Accept(b.best, b.bestCount, Len(lines))

\* ------------------------------------------------------------------------
\* Date extractor
\* ------------------------------------------------------------------------

\* /(\d{4})[-/](\d{2})[-/](\d{2})/
LooseRegex ==
    << Cls(Digit, 4, 4, 1), Cls({"-", "/"}, 1, 1, 0), Cls(Digit, 2, 2, 2),
       Cls({"-", "/"}, 1, 1, 0), Cls(Digit, 2, 2, 3) >>

\* the matches of the loose pattern on the lines of the lexicon, computed once
LooseTable == [l \in WideLexicon |-> RegexExec(LooseRegex, l)]

\* /(\d{4})[-/](\d{2})[-/](\d{2})/.exec(line)
LooseExec(line) ==
    IF line \in WideLexicon THEN LooseTable[line] ELSE RegexExec(LooseRegex, line)

\* the fallback of extractDate
LooseDate(line) ==
    LET loose == LooseExec(line)
    IN  IF loose.ok
        THEN DateString(loose.groups[1], loose.groups[2], loose.groups[3])
        ELSE Null

\* ChosenResult that goes on to the fallback when the normalizer rejects
ChosenOrLoose(line, ex, m, nowYear) ==
    IF ToISODate(ex, m, nowYear) = Null THEN LooseDate(line)
    ELSE ToISODate(ex, m, nowYear)

\* what extractDate returns once the chosen pattern has matched
\* (ex.toISODate(m) ?? null)
ChosenResult(line, ex, m, nowYear) == ToISODate(ex, m, nowYear)

extractDate(line, ex, nowYear) ==
    LET m == IF ex # NoExtractor THEN Exec(ex, line) ELSE NoMatch
    IN  IF ex # NoExtractor /\ m.ok
        THEN ChosenResult(line, ex, m, nowYear)
        ELSE LooseDate(line)

\* ------------------------------------------------------------------------
\* Inputs
\* ------------------------------------------------------------------------

\* the values of --unknown-bucket
UnknownBuckets == {BucketUnknown, BucketDate}

\* the default of --max-sample-lines
DefaultMaxSampleLines == 500

\* the values of --max-sample-lines
SampleLimits == {DefaultMaxSampleLines}

\* the byte cap of sampleLines (maxBytes = 256 * 1024)
DefaultMaxBytes == 256 * 1024

\* the calendar year when the run starts
FirstYear == 2025

\* a run lasts less than a year: the calendar year changes at most once
LastYear == FirstYear + 1

\* sequences of at most n elements of S
SeqsUpTo(S, n) == UNION {[1..k -> S] : k \in 0..n}

\* the contents an input file may have
Files == SeqsUpTo(Lexicon, MaxLines)

\* ------------------------------------------------------------------------
\* State
\* ------------------------------------------------------------------------

VARIABLES
    todo,           \* the number of files of the listing still to be visited
    unknownBucket,  \* opts.unknownBucket
    maxSampleLines, \* opts.maxSampleLines
    nowYear,        \* the calendar year of the clock
    pc,             \* where processAll stands
    file,           \* the lines of the file being processed
    sample,         \* lines, as returned by sampleLines
    ex,             \* the extractor chosen for the file (0 for null)
    count,          \* count of splitFileByDay: lines read so far
    lastDay,        \* lastDay of splitFileByDay
    writers,        \* the Map writers, in insertion order: [key, w]
    pending,        \* pending of the closing promise
    failed,         \* the read loop threw, the error is still to propagate
    streams,        \* the WriteStreams of the process that are not finished
    log,            \* per line read of the current file: its routing
    call,           \* an application of a function on its own
    disk            \* the output files named after the current input file:
                    \* [key, lines], in the order they came to be

vars == <<todo, unknownBucket, maxSampleLines, nowYear, pc, file, sample,
          ex, count, lastDay, writers, pending, failed, streams, log,
          call, disk>>

NoCall == [fn |-> "none"]

\* a || b
JsOr(a, b) == IF a = Null \/ a = Undefined \/ a = <<>> THEN b ELSE a

\* RoutingKey without the carry-forward
RoutingKeyNoCarry(d, last, unknown) == JsOr(d, unknown)

\* extractDate(line, opts.ex) || lastDay || opts.unknownBucket
RoutingKey(d, last, unknown) == JsOr(JsOr(d, last), unknown)

\* NextLastDay that keeps the first date rather than the latest
NextLastDayFirst(d, last) == JsOr(last, d)

\* NextLastDay that forgets the date at a line without one
NextLastDayReset(d, last) == d

\* extractDate(line, opts.ex) || lastDay
NextLastDay(d, last) == JsOr(d, last)

\* writers.get(key): the position of key in writers, 0 when it is absent
WriterOf(ws, key) ==
    IF \E i \in DOMAIN ws : ws[i].key = key
    THEN CHOOSE i \in DOMAIN ws : ws[i].key = key
    ELSE 0

\* getWriter that opens a stream at every call
getWriterAlways(ws, ss, key, owner) ==
    [writers |-> Append(ws, [key |-> key, w |-> Len(ss) + 1]),
     streams |-> Append(ss, [owner |-> owner, key |-> key,
                             st |-> "open", ends |-> 0, data |-> <<>>,
                             buf |-> 0, corked |-> 0, cycles |-> 0]),
     w |-> Len(ss) + 1]

\* getWriter(day): the writers and the streams after the call, and the
\* stream w it returns; owner tells the call of splitFileByDay that creates
\* the stream (the number of files that remain after its file).  A stream
\* has the lines written to it (data) and the number of them that its buffer
\* still holds (buf), whether it is corked, and the number of times it has
\* been uncorked (cycles).
getWriter(ws, ss, key, owner) ==
    IF WriterOf(ws, key) # 0
    THEN [writers |-> ws, streams |-> ss, w |-> ws[WriterOf(ws, key)].w]
    ELSE [writers |-> Append(ws, [key |-> key, w |-> Len(ss) + 1]),
          streams |-> Append(ss, [owner |-> owner, key |-> key,
                                  st |-> "open", ends |-> 0, data |-> <<>>,
                                  buf |-> 0, corked |-> 0, cycles |-> 0]),
          w |-> Len(ss) + 1]

\* WriteLine that leaves out the line terminator
WriteLineBare(ss, w, line) ==
    [ss EXCEPT ![w].data = Append(@, line), ![w].buf = @ + 1]

\* w.write(String(line) + '\n'): the line joins the stream's buffer, whatever
\* the buffer holds already (the value write returns is not looked at)
WriteLine(ss, w, line) ==
    [ss EXCEPT ![w].data = Append(@, line \o <<"\n">>), ![w].buf = @ + 1]

\* FlushDue that is one line late
FlushDueLate(n) == n % FlushEvery = 1

\* count % 200000 === 0
FlushDue(n) == n % FlushEvery = 0

\* for (const w of writers.values()) w.cork()
Cork(ws, ss) ==
    [w \in DOMAIN ss |->
        IF \E i \in DOMAIN ws : ws[i].w = w
        THEN [ss[w] EXCEPT !.corked = @ + 1]
        ELSE ss[w]]

\* for (const w of writers.values()) w.uncork(): a stream that is corked no
\* more hands its buffer to the file system (that is one cycle); what it was
\* given to write stays as it is
Uncork(ws, ss) ==
    [w \in DOMAIN ss |->
        IF (\E i \in DOMAIN ws : ws[i].w = w) /\ ss[w].corked > 0
        THEN [ss[w] EXCEPT !.corked = @ - 1,
                           !.cycles = IF ss[w].corked = 1 THEN @ + 1 ELSE @]
        ELSE ss[w]]

\* the periodic flush at the end of a turn of the read loop, n being count
\* after count++
FlushCycle(n, ws, ss) ==
    IF FlushDue(n) THEN Uncork(ws, Cork(ws, ss)) ELSE ss

\* w.end(cb) for every stream of writers
EndAll(ws, ss) ==
    [w \in DOMAIN ss |->
        IF \E i \in DOMAIN ws : ws[i].w = w
        THEN [ss[w] EXCEPT !.ends = @ + 1,
                           !.st = IF @ = "open" THEN "ending" ELSE @]
        ELSE ss[w]]

\* the content of the output file of key in the directory d, empty when the
\* file does not exist
FileContent(d, key) ==
    IF \E i \in DOMAIN d : d[i].key = key
    THEN d[CHOOSE i \in DOMAIN d : d[i].key = key].lines
    ELSE <<>>

\* the directory d once the output file of key holds content
PutFile(d, key, content) ==
    IF \E i \in DOMAIN d : d[i].key = key
    THEN [i \in DOMAIN d |-> IF d[i].key = key
                             THEN [key |-> key, lines |-> content]
                             ELSE d[i]]
    ELSE Append(d, [key |-> key, lines |-> content])

\* a stream opened with flags 'w': what the file held is lost
WriteMode(old, data) == data

\* fs.createWriteStream(outPath, { flags: 'a' }): what the file holds once
\* the stream has written data to a file that held old
AppendMode(old, data) == old \o data

\* AllClosed that does not wait for the last callback
AllButOneClosed(p) == p <= 1

\* pending === 0
AllClosed(p) == p = 0

\* the extractors whose toISODate calls new Date(): the syslog pattern alone.
\* The year of the clock shows in nothing else, so it is left to change only
\* while such an extractor is the chosen one.
ReadsClock(e) == e = 6

Finished(s) == s.st = "finished"

Init ==
    /\ todo \in 0..MaxFiles
    /\ unknownBucket \in UnknownBuckets
    /\ maxSampleLines \in SampleLimits
    /\ nowYear = FirstYear
    /\ pc = "start"
    /\ file = <<>>
    /\ sample = <<>>
    /\ ex = NoExtractor
    /\ count = 0
    /\ lastDay = Null
    /\ writers = <<>>
    /\ pending = 0
    /\ failed = FALSE
    /\ streams = <<>>
    /\ log = <<>>
    /\ call = NoCall
    /\ disk = <<>>

\* processAll up to the loop: no file, or the first file
ListFiles ==
    /\ pc = "start"
    /\ IF todo = 0
       THEN pc' = "done" /\ todo' = todo
       ELSE pc' = "sample" /\ todo' = todo - 1
    /\ UNCHANGED <<unknownBucket, maxSampleLines, nowYear, file, sample,
                   ex, count, lastDay, writers, pending, failed, streams, log,
                   call, disk>>

\* sampleLines and chooseExtractor of the loop body; f is what the file holds
SampleFile(f) ==
    /\ pc = "sample"
    /\ file' = f
    /\ sample' = sampleLines(f, maxSampleLines, DefaultMaxBytes)
    /\ ex' = chooseExtractor(sample')
    /\ pc' = "open"
    /\ UNCHANGED <<todo, unknownBucket, maxSampleLines, nowYear, count,
                   lastDay, writers, pending, failed, streams, log, call, disk>>

\* the file cannot be read while it is sampled: sampleLines rejects, and the
\* rejection leaves the loop and processAll
SampleError ==
    /\ pc = "sample"
    /\ pc' = "failed"
    /\ UNCHANGED <<todo, unknownBucket, maxSampleLines, nowYear, file,
                   sample, ex, count, lastDay, writers, pending, failed, streams,
                   log, call, disk>>

\* splitFileByDay up to its read loop
OpenFile ==
    /\ pc = "open"
    /\ writers' = <<>>
    /\ lastDay' = Null
    /\ count' = 0
    /\ log' = <<>>
    /\ failed' = FALSE
    /\ pc' = "split"
    /\ UNCHANGED <<todo, unknownBucket, maxSampleLines, nowYear, file,
                   sample, ex, pending, streams, call, disk>>

\* a read loop that detects the pattern again at every line, from the lines
\* read so far
RouteLineRedetect(roll) ==
    /\ pc = "split"
    /\ count < Len(file)
    /\ roll => ReadsClock(ex) /\ nowYear < LastYear
    /\ LET line == file[count + 1]
           y1 == nowYear
           y2 == IF roll THEN nowYear + 1 ELSE nowYear
           again == chooseExtractor(SubSeq(file, 1, count + 1))
           day == RoutingKey(extractDate(line, again, y1), lastDay, unknownBucket)
           g == getWriter(writers, streams, day, todo)
       IN  /\ writers' = g.writers
           /\ streams' = FlushCycle(count + 1, g.writers,
                                    WriteLine(g.streams, g.w, line))
           /\ lastDay' = NextLastDay(extractDate(line, again, y2), lastDay)
           /\ count' = count + 1
           /\ nowYear' = y2
           /\ ex' = again
           /\ log' = Append(log, [key |-> day, prev |-> lastDay,
                                  y1 |-> y1, y2 |-> y2])
    /\ UNCHANGED <<todo, unknownBucket, maxSampleLines, pc, file,
                   sample, pending, failed, call, disk>>

\* one turn of the read loop, with the flush cycle at its end when it is
\* due; the year may change between the two calls of extractDate (roll)
RouteLine(roll) ==
    /\ pc = "split"
    /\ count < Len(file)
    /\ roll => ReadsClock(ex) /\ nowYear < LastYear
    /\ LET line == file[count + 1]
           y1 == nowYear
           y2 == IF roll THEN nowYear + 1 ELSE nowYear
           day == RoutingKey(extractDate(line, ex, y1), lastDay, unknownBucket)
           g == getWriter(writers, streams, day, todo)
       IN  /\ writers' = g.writers
           /\ streams' = FlushCycle(count + 1, g.writers,
                                    WriteLine(g.streams, g.w, line))
           /\ lastDay' = NextLastDay(extractDate(line, ex, y2), lastDay)
           /\ count' = count + 1
           /\ nowYear' = y2
           /\ log' = Append(log, [key |-> day, prev |-> lastDay,
                                  y1 |-> y1, y2 |-> y2])
    /\ UNCHANGED <<todo, unknownBucket, maxSampleLines, pc, file,
                   sample, ex, pending, failed, call, disk>>

\* splitFileByDay returns (err = FALSE) or rejects (err = TRUE), and its
\* locals and those of the loop body go out of scope; processAll goes on with
\* the next file, ends, or rejects.  ss is the streams at that time: the
\* finished ones are gone for good, the others stay.  d is the output files
\* at that time; the next input file has another name and finds none of its
\* own.
Return(err, ss, d) ==
    /\ IF err THEN pc' = "failed" /\ todo' = todo /\ disk' = d
       ELSE IF todo > 0 THEN pc' = "sample" /\ todo' = todo - 1 /\ disk' = <<>>
       ELSE pc' = "done" /\ todo' = todo /\ disk' = d
    /\ streams' = SelectSeq(ss, LAMBDA s : ~Finished(s))
    /\ file' = <<>>
    /\ sample' = <<>>
    /\ ex' = NoExtractor
    /\ count' = 0
    /\ lastDay' = Null
    /\ writers' = <<>>
    /\ pending' = 0
    /\ failed' = FALSE
    /\ log' = <<>>

\* the finally block of splitFileByDay, up to the await
Finally(err) ==
    /\ IF AllClosed(Len(writers))
       THEN Return(err, streams, disk)
       ELSE /\ streams' = EndAll(writers, streams)
            /\ pending' = Len(writers)
            /\ failed' = err
            /\ pc' = "closing"
            /\ UNCHANGED <<todo, file, sample, ex, count, lastDay, writers, log,
                           disk>>
    /\ UNCHANGED <<unknownBucket, maxSampleLines, nowYear, call>>

\* the input is exhausted
EndOfInput ==
    /\ pc = "split"
    /\ count = Len(file)
    /\ Finally(FALSE)

\* reading the input fails (the file cannot be opened, or a read fails)
ReadError ==
    /\ pc = "split"
    /\ Finally(TRUE)

\* the callback handed to end() by the finally block fires for writers[i]:
\* the stream has finished, all it was given is in its file
EndCallback(i) ==
    /\ pc = "closing"
    /\ i \in DOMAIN writers
    /\ streams[writers[i].w].st = "ending"
    /\ LET w == writers[i].w
           ss == [streams EXCEPT ![w].st = "finished", ![w].buf = 0]
           d == PutFile(disk, streams[w].key,
                        AppendMode(FileContent(disk, streams[w].key),
                                   streams[w].data))
       IN  IF AllClosed(pending - 1)
           THEN Return(failed, ss, d)
           ELSE /\ streams' = ss
                /\ disk' = d
                /\ pending' = pending - 1
                /\ UNCHANGED <<pc, todo, file, sample, ex, count, lastDay,
                               writers, failed, log>>
    /\ UNCHANGED <<unknownBucket, maxSampleLines, nowYear, call>>

\* the calendar year changes while the read loop waits for its next line
ClockTick ==
    /\ pc = "split"
    /\ ReadsClock(ex)
    /\ nowYear < LastYear
    /\ nowYear' = nowYear + 1
    /\ UNCHANGED <<todo, unknownBucket, maxSampleLines, pc, file,
                   sample, ex, count, lastDay, writers, pending, failed, streams,
                   log, call, disk>>

Next ==
    \/ ListFiles
    \/ \E f \in Files : SampleFile(f)
    \/ SampleError
    \/ OpenFile
    \/ \E roll \in BOOLEAN : RouteLine(roll)
    \/ EndOfInput
    \/ ReadError
    \/ \E i \in 1..MaxLines : EndCallback(i)
    \/ ClockTick

Spec == Init /\ [][Next]_vars

\* the file system completes the writes of stream w: its buffer is empty
\* again.  This happens when the event loop turns, at any time between two
\* lines or between two callbacks, or not before the stream ends.
Drain(w) ==
    /\ w \in DOMAIN streams
    /\ streams[w].st \in {"open", "ending"}
    /\ streams[w].buf > 0
    /\ streams' = [streams EXCEPT ![w].buf = 0]
    /\ UNCHANGED <<todo, unknownBucket, maxSampleLines, nowYear, pc, file,
                   sample, ex, count, lastDay, writers, pending, failed, log,
                   call, disk>>

\* the run together with the completion of writes.  Spec leaves the
\* completions out: they change buf alone, which nothing in the program
\* reads.
NextFlow ==
    \/ Next
    \/ \E w \in 1..MaxLines : Drain(w)

SpecFlow == Init /\ [][NextFlow]_vars

\* the router started with --max-sample-lines 1 or with the default, on at
\* most one file: with a sample of one line, the lines after the first are
\* not part of what the detector saw
InitLock ==
    /\ todo \in 0..1
    /\ unknownBucket = BucketUnknown
    /\ maxSampleLines \in {1, DefaultMaxSampleLines}
    /\ nowYear = FirstYear
    /\ pc = "start"
    /\ file = <<>>
    /\ sample = <<>>
    /\ ex = NoExtractor
    /\ count = 0
    /\ lastDay = Null
    /\ writers = <<>>
    /\ pending = 0
    /\ failed = FALSE
    /\ streams = <<>>
    /\ log = <<>>
    /\ call = NoCall
    /\ disk = <<>>

SpecLock == InitLock /\ [][Next]_vars

\* the router run twice on one input file against one output directory that
\* is not cleared in between: call tells the input, the run, and what the
\* directory held when the first run had ended
InitRerun ==
    /\ todo = 1
    /\ unknownBucket \in UnknownBuckets
    /\ maxSampleLines \in SampleLimits
    /\ nowYear = FirstYear
    /\ pc = "start"
    /\ file = <<>>
    /\ sample = <<>>
    /\ ex = NoExtractor
    /\ count = 0
    /\ lastDay = Null
    /\ writers = <<>>
    /\ pending = 0
    /\ failed = FALSE
    /\ streams = <<>>
    /\ log = <<>>
    /\ disk = <<>>
    /\ call \in {[fn |-> "rerun", input |-> f, run |-> 1, first |-> <<>>] :
                    f \in Files}

\* the program is started again, with the same arguments, on the same input
\* and output directories; the year may have changed since the first run
\* (roll)
Rerun(roll) ==
    /\ pc = "done"
    /\ call.fn = "rerun"
    /\ call.run = 1
    /\ roll => nowYear < LastYear
    /\ nowYear' = IF roll THEN nowYear + 1 ELSE nowYear
    /\ call' = [call EXCEPT !.run = 2, !.first = disk]
    /\ todo' = 1
    /\ pc' = "start"
    /\ UNCHANGED <<unknownBucket, maxSampleLines, file, sample, ex, count,
                   lastDay, writers, pending, failed, streams, log, disk>>

NextRerun ==
    \/ ListFiles
    \/ SampleFile(call.input)
    \/ SampleError
    \/ OpenFile
    \/ \E roll \in BOOLEAN : RouteLine(roll)
    \/ EndOfInput
    \/ ReadError
    \/ \E i \in 1..MaxLines : EndCallback(i)
    \/ ClockTick
    \/ \E roll \in BOOLEAN : Rerun(roll)

SpecRerun == InitRerun /\ [][NextRerun]_vars

\* ------------------------------------------------------------------------
\* chooseExtractor and extractDate on their own
\* ------------------------------------------------------------------------

\* k filler lines without a date
Filler(k) == [i \in 1..k |-> LineNoDate]

\* the samples chooseExtractor is applied to
Samples ==
    {head \o Filler(k) : head \in SeqsUpTo(WideLexicon, MaxLines),
                         k \in {0, PadLines}}

Idle ==
    /\ todo = 0
    /\ unknownBucket = BucketUnknown
    /\ maxSampleLines = DefaultMaxSampleLines
    /\ nowYear = FirstYear
    /\ pc = "call"
    /\ file = <<>>
    /\ sample = <<>>
    /\ ex = NoExtractor
    /\ count = 0
    /\ lastDay = Null
    /\ writers = <<>>
    /\ pending = 0
    /\ failed = FALSE
    /\ streams = <<>>
    /\ log = <<>>
    /\ disk = <<>>

InitDetect ==
    /\ Idle
    /\ call \in {[fn |-> "chooseExtractor", lines |-> l, done |-> FALSE,
                  ret |-> NoExtractor] : l \in Samples}

ApplyChooseExtractor ==
    /\ call.fn = "chooseExtractor"
    /\ ~call.done
    /\ call' = [call EXCEPT !.done = TRUE, !.ret = chooseExtractor(call.lines)]
    /\ UNCHANGED <<todo, unknownBucket, maxSampleLines, nowYear, pc, file, sample,
                   ex, count, lastDay, writers, pending, failed, streams, log,
                   disk>>

SpecDetect == InitDetect /\ [][ApplyChooseExtractor]_vars

InitExtract ==
    /\ Idle
    /\ call \in {[fn |-> "extractDate", line |-> l, ex |-> e, year |-> y,
                  done |-> FALSE, ret |-> Null] :
                    l \in WideLexicon, e \in 0..Len(extractors),
                    y \in FirstYear..LastYear}

ApplyExtractDate ==
    /\ call.fn = "extractDate"
    /\ ~call.done
    /\ call' = [call EXCEPT !.done = TRUE,
                            !.ret = extractDate(call.line, call.ex, call.year)]
    /\ UNCHANGED <<todo, unknownBucket, maxSampleLines, nowYear, pc, file, sample,
                   ex, count, lastDay, writers, pending, failed, streams, log,
                   disk>>

SpecExtract == InitExtract /\ [][ApplyExtractDate]_vars

\* ------------------------------------------------------------------------
\* sampleLines on its own
\* ------------------------------------------------------------------------

\* the values of maxLines: those --max-sample-lines gives, from 0 on, and the
\* default
SampleArgs == (0..MaxLines) \cup {DefaultMaxSampleLines}

\* the values of maxBytes: the default, and one that the second line of any
\* file of the lexicon reaches
ByteCaps == {DefaultMaxBytes, 20}

InitSample ==
    /\ Idle
    /\ call \in {[fn |-> "sampleLines", file |-> f, maxLines |-> n,
                  maxBytes |-> b, done |-> FALSE, ret |-> <<>>] :
                    f \in Files, n \in SampleArgs, b \in ByteCaps}

ApplySampleLines ==
    /\ call.fn = "sampleLines"
    /\ ~call.done
    /\ call' = [call EXCEPT !.done = TRUE,
                            !.ret = sampleLines(call.file, call.maxLines,
                                                call.maxBytes)]
    /\ UNCHANGED <<todo, unknownBucket, maxSampleLines, nowYear, pc, file, sample,
                   ex, count, lastDay, writers, pending, failed, streams, log,
                   disk>>

SpecSample == InitSample /\ [][ApplySampleLines]_vars

\* ------------------------------------------------------------------------
\* Output file names: safeOutName on its own
\* ------------------------------------------------------------------------

\* "app.log"
NameAppLog == <<"a", "p", "p", ".", "l", "o", "g">>

\* "app"
NameApp == <<"a", "p", "p">>

\* "2025-08-29"
KeyAug29 == <<"2", "0", "2", "5", "-", "0", "8", "-", "2", "9">>

\* ".log"
DotLog == <<".", "l", "o", "g">>

\* the position of the last '.' of p, 0 when p has none
LastDot(p) ==
    IF \E i \in DOMAIN p : p[i] = "."
    THEN CHOOSE i \in DOMAIN p : p[i] = "." /\ \A j \in (i + 1)..Len(p) : p[j] # "."
    ELSE 0

\* path.extname(p) of a name without a directory part: from the last '.' on;
\* empty when there is no '.', when the only '.' that counts is the first
\* character, and for ".."
extname(p) ==
    IF LastDot(p) <= 1 \/ p = <<".", ".">> THEN <<>>
    ELSE SubSeq(p, LastDot(p), Len(p))

\* path.basename(p, ext) of a name without a directory part: p without the
\* suffix ext, when ext is not empty and p ends with it
basename(p, ext) ==
    IF ext = <<>> \/ Len(ext) > Len(p) THEN p
    ELSE IF ext = p THEN <<>>
    ELSE IF SubSeq(p, Len(p) - Len(ext) + 1, Len(p)) = ext
         THEN SubSeq(p, 1, Len(p) - Len(ext))
         ELSE p

\* CleanExt that keeps a bare dot
CleanExtKeepDot(ext) == IF ext # <<>> THEN ext ELSE DotLog

\* ext && ext !== '.' ? ext : '.log'
CleanExt(ext) == IF ext # <<>> /\ ext # <<".">> THEN ext ELSE DotLog

safeOutName(base, day) ==
    LET ext == extname(base)
        name == basename(base, ext)
    IN  name \o <<".">> \o day \o CleanExt(ext)

\* the characters of the generated names
NameChars == {"a", "b", "."}

\* the names of the input files: the two of the examples and every name of
\* at most MaxName characters ("." and ".." name no file)
Names ==
    {NameAppLog, NameApp}
        \cup ((UNION {[1..k -> NameChars] : k \in 1..MaxName})
                \ {<<".">>, <<".", ".">>})

\* the bucket keys of the names
OutKeys == {BucketUnknown, BucketDate, KeyAug29}

InitName ==
    /\ Idle
    /\ call \in {[fn |-> "safeOutName", base |-> b, day |-> k, done |-> FALSE,
                  ret |-> <<>>] : b \in Names, k \in OutKeys}

ApplySafeOutName ==
    /\ call.fn = "safeOutName"
    /\ ~call.done
    /\ call' = [call EXCEPT !.done = TRUE,
                            !.ret = safeOutName(call.base, call.day)]
    /\ UNCHANGED <<todo, unknownBucket, maxSampleLines, nowYear, pc, file, sample,
                   ex, count, lastDay, writers, pending, failed, streams, log,
                   disk>>

SpecName == InitName /\ [][ApplySafeOutName]_vars

\* Two files of one input directory, and a bucket of each: the output files
\* that getWriter opens for them in one run of processAll
InitNames ==
    /\ Idle
    /\ call \in {[fn |-> "getWriter", base |-> b, day |-> k, other |-> c,
                  otherDay |-> l, done |-> FALSE, ret |-> <<>>,
                  otherRet |-> <<>>] :
                    b \in Names, k \in OutKeys, c \in Names, l \in OutKeys}

\* getWriter of the first file names its output safeOutName(base, day), and
\* getWriter of the second one safeOutName(other, otherDay), in the one
\* output directory
ApplyGetWriterNames ==
    /\ call.fn = "getWriter"
    /\ ~call.done
    /\ call' = [call EXCEPT !.done = TRUE,
                            !.ret = safeOutName(call.base, call.day),
                            !.otherRet = safeOutName(call.other, call.otherDay)]
    /\ UNCHANGED <<todo, unknownBucket, maxSampleLines, nowYear, pc, file, sample,
                   ex, count, lastDay, writers, pending, failed, streams, log,
                   disk>>

SpecNames == InitNames /\ [][ApplyGetWriterNames]_vars

\* ------------------------------------------------------------------------
\* The search tool: processLogFile of the second part of src/src/index.ts
\* ------------------------------------------------------------------------

\* "ERROR disk full"
LineErrorUpper == <<"E", "R", "R", "O", "R", " ", "d", "i", "s", "k", " ", "f", "u", "l", "l">>

\* "an error again"
LineErrorLower == <<"a", "n", " ", "e", "r", "r", "o", "r", " ", "a", "g", "a", "i", "n">>

\* "all fine"
LineFine == <<"a", "l", "l", " ", "f", "i", "n", "e">>

\* "ERROR"
NeedleError == <<"E", "R", "R", "O", "R">>

SearchLexicon == {LineErrorUpper, LineErrorLower, LineFine}

\* String.prototype.includes
Includes(str, sub) ==
    \E i \in 1..(Len(str) - Len(sub) + 1) :
        SubSeq(str, i, i + Len(sub) - 1) = sub

\* line.toLowerCase().includes(searchString.toLowerCase())
Matches(line, searchString) ==
    Includes(ToLowerCase(line), ToLowerCase(searchString))

\* Math.floor((contextLines - 1) / 2)
Before(contextLines) == (contextLines - 1) \div 2

\* contextLines - 1 - before
After(contextLines) == contextLines - 1 - Before(contextLines)

\* preBuffer after push(line) and the shift that follows when it holds more
\* than before lines
PushShift(preBuffer, line, before) ==
    IF Len(preBuffer) + 1 > before THEN Tail(Append(preBuffer, line))
    ELSE Append(preBuffer, line)

\* the for-await loop of the search tool from line i of f on; st is its
\* variables preBuffer, lines, found and afterCount
RECURSIVE SearchLoop(_, _, _, _, _)
SearchLoop(f, i, st, searchString, contextLines) ==
    IF i > Len(f) THEN st
    ELSE IF ~st.found
    THEN LET pb == PushShift(st.preBuffer, f[i], Before(contextLines))
         IN  IF Matches(f[i], searchString)
             THEN SearchLoop(f, i + 1,
                             [st EXCEPT !.preBuffer = pb, !.found = TRUE,
                                        !.lines = Append(pb, f[i])],
                             searchString, contextLines)
             ELSE SearchLoop(f, i + 1, [st EXCEPT !.preBuffer = pb],
                             searchString, contextLines)
    ELSE LET nx == [st EXCEPT !.lines = Append(@, f[i]),
                              !.afterCount = @ + 1]
         IN  IF nx.afterCount >= After(contextLines) THEN nx
             ELSE SearchLoop(f, i + 1, nx, searchString, contextLines)

\* processLogFile of the search tool: whether the string was found, and the
\* lines written to the output file (none is written when it was not found)
processLogFileSearch(f, searchString, contextLines) ==
    LET st == SearchLoop(f, 1,
                         [preBuffer |-> <<>>, lines |-> <<>>, found |-> FALSE,
                          afterCount |-> 0],
                         searchString, contextLines)
    IN  [found |-> st.found, lines |-> IF st.found THEN st.lines ELSE <<>>]

InitSearch ==
    /\ Idle
    /\ call \in {[fn |-> "search", file |-> f, searchString |-> NeedleError,
                  contextLines |-> c, done |-> FALSE,
                  ret |-> [found |-> FALSE, lines |-> <<>>]] :
                    f \in SeqsUpTo(SearchLexicon, MaxLines),
                    c \in 1..MaxContext}

ApplySearch ==
    /\ call.fn = "search"
    /\ ~call.done
    /\ call' = [call EXCEPT !.done = TRUE,
                            !.ret = processLogFileSearch(call.file,
                                                         call.searchString,
                                                         call.contextLines)]
    /\ UNCHANGED <<todo, unknownBucket, maxSampleLines, nowYear, pc, file, sample,
                   ex, count, lastDay, writers, pending, failed, streams, log,
                   disk>>

SpecSearch == InitSearch /\ [][ApplySearch]_vars

\* ------------------------------------------------------------------------
\* The line splitter: processLogFile of src/src/main.js and of src/index.js
\* ------------------------------------------------------------------------

\* "input.log"
NameInputLog == <<"i", "n", "p", "u", "t", ".", "l", "o", "g">>

\* "a.log"
NameALog == <<"a", ".", "l", "o", "g">>

\* the names of the input files (run keeps those that end in .log)
LogNames == {NameInputLog, NameALog}

Max(a, b) == IF a >= b THEN a ELSE b

Min(a, b) == IF a <= b THEN a ELSE b

\* countLinesWithTiming(fileName, inputPath).totalLines
countLines(f) == Len(f)

\* startLine: Math.max(0, totalLines - skipLines - maxLines) in reverse mode,
\* skipLines otherwise; totalLines is counted in reverse mode only, and is 0
\* otherwise
StartLine(f, maxLines, skipLines, reverse) ==
    IF reverse THEN Max(0, countLines(f) - skipLines - maxLines)
    ELSE skipLines

\* Skipping that skips one line more
SkippingOneMore(skipped, startLine) == skipped <= startLine

\* skipped < startLine
Skipping(skipped, startLine) == skipped < startLine

\* the for-await loop of processLogFile from line i of f on: the lines it
\* has pushed when it ends
RECURSIVE WindowLoop(_, _, _, _, _, _)
WindowLoop(f, i, skipped, lines, startLine, maxLines) ==
    IF i > Len(f) THEN lines
    ELSE IF Skipping(skipped, startLine)
    THEN WindowLoop(f, i + 1, skipped + 1, lines, startLine, maxLines)
    ELSE IF Len(lines) >= maxLines THEN lines
    ELSE WindowLoop(f, i + 1, skipped, Append(lines, f[i]), startLine,
                    maxLines)

\* path.join('./output', fileName), without the directory
OutputName(fileName, maxLines, skipLines, reverse) == fileName

\* processLogFile of src/src/main.js: the lines written to the output file,
\* and the name of that file
processLogFile(fileName, f, maxLines, skipLines, reverse) ==
    [lines |-> WindowLoop(f, 1, 0, <<>>,
                          StartLine(f, maxLines, skipLines, reverse),
                          maxLines),
     outputName |-> OutputName(fileName, maxLines, skipLines, reverse)]

\* the loop of processLogFile of src/index.js, which writes each line as it
\* reads it
RECURSIVE IndexJsLoop(_, _, _, _, _, _)
IndexJsLoop(f, i, skipped, written, skipLines, maxLines) ==
    IF i > Len(f) THEN written
    ELSE IF skipped < skipLines
    THEN IndexJsLoop(f, i + 1, skipped + 1, written, skipLines, maxLines)
    ELSE IF Len(written) >= maxLines THEN written
    ELSE IndexJsLoop(f, i + 1, skipped, Append(written, f[i]), skipLines,
                     maxLines)

\* processLogFile of src/index.js
processLogFileIndexJs(fileName, f, maxLines, skipLines) ==
    [lines |-> IndexJsLoop(f, 1, 0, <<>>, skipLines, maxLines),
     outputName |-> fileName]

\* the values of --lines: positive integers
LinesArgs == 1..(MaxLines + 1)

\* the values of --skip: non-negative integers
SkipArgs == 0..(MaxLines + 1)

NoOutput == [lines |-> <<>>, outputName |-> <<>>]

InitWindow ==
    /\ Idle
    /\ call \in
          {[fn |-> "processLogFile", fileName |-> n, file |-> f,
            maxLines |-> m, skipLines |-> k, reverse |-> r, done |-> FALSE,
            ret |-> NoOutput] :
              n \in LogNames, f \in SeqsUpTo(SearchLexicon, MaxLines),
              m \in LinesArgs, k \in SkipArgs, r \in BOOLEAN}
          \cup
          {[fn |-> "processLogFileIndexJs", fileName |-> n, file |-> f,
            maxLines |-> m, skipLines |-> k, reverse |-> FALSE,
            done |-> FALSE, ret |-> NoOutput] :
              n \in LogNames, f \in SeqsUpTo(SearchLexicon, MaxLines),
              m \in LinesArgs, k \in SkipArgs}

ApplyProcessLogFile ==
    /\ call.fn = "processLogFile"
    /\ ~call.done
    /\ call' = [call EXCEPT !.done = TRUE,
                            !.ret = processLogFile(call.fileName, call.file,
                                                   call.maxLines,
                                                   call.skipLines,
                                                   call.reverse)]
    /\ UNCHANGED <<todo, unknownBucket, maxSampleLines, nowYear, pc, file, sample,
                   ex, count, lastDay, writers, pending, failed, streams, log,
                   disk>>

ApplyProcessLogFileIndexJs ==
    /\ call.fn = "processLogFileIndexJs"
    /\ ~call.done
    /\ call' = [call EXCEPT !.done = TRUE,
                            !.ret = processLogFileIndexJs(call.fileName,
                                                          call.file,
                                                          call.maxLines,
                                                          call.skipLines)]
    /\ UNCHANGED <<todo, unknownBucket, maxSampleLines, nowYear, pc, file, sample,
                   ex, count, lastDay, writers, pending, failed, streams, log,
                   disk>>

NextWindow ==
    \/ ApplyProcessLogFile
    \/ ApplyProcessLogFileIndexJs

SpecWindow == InitWindow /\ [][NextWindow]_vars

\* ------------------------------------------------------------------------
\* Properties of the day router/writer (specification Spec)
\* ------------------------------------------------------------------------

\* splitFileByDay is at work on file: log, lastDay and writers are its own
InFile == pc \in {"split", "closing"}

\* the date extractDate gave for line i when it was routed (line 179)
RoutedDate(i) == extractDate(file[i], ex, log[i].y1)

\* the date extractDate gave for line i when lastDay was updated (line 181)
StoredDate(i) == extractDate(file[i], ex, log[i].y2)

\* the date of the latest of the first n lines that has one, Null if none has
RECURSIVE LastDated(_)
LastDated(n) ==
    IF n = 0 THEN Null
    ELSE IF StoredDate(n) # Null THEN StoredDate(n) ELSE LastDated(n - 1)

\* lastDay after line i was processed
LastDayAfter(i) == IF i < Len(log) THEN log[i + 1].prev ELSE lastDay

\* the lines routed so far to key k, in file order, as written
RECURSIVE LinesOf(_, _)
LinesOf(k, n) ==
    IF n = 0 THEN <<>>
    ELSE IF log[n].key = k THEN Append(LinesOf(k, n - 1), file[n] \o <<"\n">>)
    ELSE LinesOf(k, n - 1)

\* the key claim C1 gives line i
ClaimedKey(i) ==
    IF RoutedDate(i) # Null THEN RoutedDate(i)
    ELSE IF \E j \in 1..(i - 1) : StoredDate(j) # Null THEN LastDated(i - 1)
    ELSE unknownBucket

\* C1: every line read so far, in order, has been appended to the bucket whose
\* key is its extracted date if it has one, else the last known day if an
\* earlier line of the file had a date, else the unknown-bucket name.
C1_RoutingKey ==
    InFile =>
        /\ Len(log) = count
        /\ \A i \in 1..count :
            /\ log[i].key = ClaimedKey(i)
            /\ \E w \in DOMAIN writers :
                /\ writers[w].key = log[i].key
                /\ streams[writers[w].w].data = LinesOf(log[i].key, count)

\* the example of the spec: a dated line, a line without a date carried
\* forward to the first date, and a line with another date
C1_Witness ==
    /\ pc = "split"
    /\ file = <<LineIsoA, LineNoDate, LineIsoB>>
    /\ count = 3
    /\ log[2].key = log[1].key
    /\ log[3].key # log[1].key
    /\ Len(writers) = 2

\* C2: after any prefix of the file, lastDay is the date of the latest line
\* of the prefix that has one, null if none has; a line without a date leaves
\* lastDay as it was.
C2_LastKnownDay ==
    InFile =>
        /\ lastDay = LastDated(count)
        /\ \A i \in 1..count :
            /\ log[i].prev = LastDated(i - 1)
            /\ StoredDate(i) = Null => LastDayAfter(i) = log[i].prev

\* two dated lines with different dates, then a line without a date: lastDay
\* is the second date
C2_Witness ==
    /\ pc = "split"
    /\ count = 3
    /\ StoredDate(1) # Null
    /\ StoredDate(2) # Null
    /\ StoredDate(2) # StoredDate(1)
    /\ StoredDate(3) = Null
    /\ lastDay = StoredDate(2)

\* YYYY-MM-DD
IsDateString(s) ==
    /\ Len(s) = 10
    /\ \A i \in {1, 2, 3, 4, 6, 7, 9, 10} : s[i] \in Digit
    /\ s[5] = "-"
    /\ s[8] = "-"

\* C3: every line before the first dated line is routed to the unknown
\* bucket, and, when the unknown-bucket name is no date string, no line after
\* the first dated line is.
C3_UnknownOnlyBeforeFirstDate ==
    InFile =>
        \A i \in 1..count :
            /\ (\A j \in 1..i : RoutedDate(j) = Null) => log[i].key = unknownBucket
            /\ (/\ ~IsDateString(unknownBucket)
                /\ \E j \in 1..(i - 1) : RoutedDate(j) # Null)
               => log[i].key # unknownBucket

\* a line without a date before the first dated line, and one after it
C3_Witness ==
    /\ pc = "split"
    /\ count = 3
    /\ unknownBucket = BucketUnknown
    /\ RoutedDate(1) = Null
    /\ RoutedDate(2) # Null
    /\ RoutedDate(3) = Null
    /\ log[1].key = unknownBucket
    /\ log[3].key = RoutedDate(2)

\* C4: the writer set starts empty, holds exactly one stream per key a line
\* was routed to, and on either exit (end of input, read error) every stream
\* is ended exactly once, so that no stream is left at the end.
C4_WriterSet ==
    /\ (pc = "split" /\ count = 0) => writers = <<>>
    /\ InFile =>
        /\ \A i, j \in DOMAIN writers : writers[i].key = writers[j].key => i = j
        /\ {writers[i].key : i \in DOMAIN writers} = {log[i].key : i \in 1..count}
        /\ {writers[i].w : i \in DOMAIN writers} = DOMAIN streams
    /\ pc = "split" => \A w \in DOMAIN streams :
                            streams[w].ends = 0 /\ streams[w].st = "open"
    /\ pc = "closing" => \A w \in DOMAIN streams :
                            streams[w].ends = 1 /\ streams[w].st # "open"
    /\ pc \in {"done", "failed"} => streams = <<>>

\* a read error after three lines went to two buckets: both streams ended
\* once, one of them already finished
C4_Witness ==
    /\ pc = "closing"
    /\ failed
    /\ count = 3
    /\ Len(writers) = 2
    /\ pending = 1
    /\ \A w \in DOMAIN streams : streams[w].ends = 1

\* C5: splitFileByDay returns only once the end callback of all its streams
\* has fired and the next file is sampled only after that, so that streams of
\* two input files are never open at the same time.
C5_OneFileAtATime ==
    /\ pc \in {"start", "sample", "open", "done", "failed"} => streams = <<>>
    /\ \A w \in DOMAIN streams : streams[w].owner = todo

\* the last callback of a file with two streams is about to fire, and another
\* file waits
C5_Witness ==
    /\ pc = "closing"
    /\ todo >= 1
    /\ Len(writers) = 2
    /\ pending = 1

\* tok is the abbreviation of no month
UnknownMonth(tok) == ToLowerCase(tok) \notin Range(LowerMonths)

\* the chosen pattern e matches the line, with a month token that is no month
BadMonthMatch(line, e) ==
    /\ e \in {4, 5, 6}
    /\ Exec(e, line).ok
    /\ UnknownMonth(Exec(e, line).groups[IF e = 4 THEN 2 ELSE 1])

\* on the lines of the lexicon, a match with a month token that is no month
\* yields no date, whatever the year (a fact about the lines and the registry,
\* which no step changes: it is looked at when the run starts)
BadMonthYieldsNoDate ==
    \A l \in WideLexicon, e \in {4, 5, 6}, y \in FirstYear..LastYear :
        BadMonthMatch(l, e) => extractDate(l, e, y) = Null

\* C10: a line whose chosen-pattern match has an unrecognized month token
\* yields no date; it is routed to lastDay if set, else to the unknown bucket,
\* lastDay stays as it was, and the loop goes on.
C10_BadMonthCarriedForward ==
    /\ pc = "start" => BadMonthYieldsNoDate
    /\ InFile =>
        \A i \in 1..count :
            BadMonthMatch(file[i], ex) =>
                /\ RoutedDate(i) = Null
                /\ StoredDate(i) = Null
                /\ log[i].key = IF log[i].prev # Null THEN log[i].prev
                                ELSE unknownBucket
                /\ LastDayAfter(i) = log[i].prev

\* a bad month token after a dated line, and a line processed after it
C10_Witness ==
    /\ pc = "split"
    /\ count = 3
    /\ BadMonthMatch(file[2], ex)
    /\ log[2].prev # Null
    /\ log[2].key = log[2].prev
    /\ log[3].prev = log[2].prev

\* ------------------------------------------------------------------------
\* Properties of chooseExtractor (specification SpecDetect)
\* ------------------------------------------------------------------------

Detected == call.fn = "chooseExtractor" /\ call.done

\* the number of lines of the sample that pattern e matches
CountOf(e) == Cardinality({i \in DOMAIN call.lines : Exec(e, call.lines[i]).ok})

\* the highest of these numbers
MaxCount ==
    LET cs == {CountOf(e) : e \in DOMAIN extractors}
    IN  CHOOSE c \in cs : \A d \in cs : d <= c

\* C6: the pattern chooseExtractor returns has the highest count of matching
\* sampled lines, and is the first in registration order among those that
\* have it.
C6_HighestCountFirst ==
    (Detected /\ call.ret # NoExtractor) =>
        /\ \A e \in DOMAIN extractors : CountOf(e) <= CountOf(call.ret)
        /\ \A e \in 1..(call.ret - 1) : CountOf(e) < CountOf(call.ret)

\* two patterns tie for the highest count and the earlier one is returned
C6_Witness ==
    /\ Detected
    /\ call.ret # NoExtractor
    /\ \E e \in DOMAIN extractors : e > call.ret /\ CountOf(e) = CountOf(call.ret)
    /\ \E e \in DOMAIN extractors : e < call.ret

\* C7: chooseExtractor returns a pattern only when some pattern matched at
\* least 3 sampled lines, or matched at least one and the sample has at most
\* 10 lines; in every other case it returns "none".
C7_ConfidenceGate ==
    Detected =>
        (call.ret # NoExtractor <=>
            \/ MaxCount >= MinConfidence
            \/ (MaxCount >= 1 /\ Len(call.lines) <= SmallSample))

Extracted == call.fn = "extractDate" /\ call.done

\* C9: when a pattern is chosen and matches the line, extractDate returns the
\* normalizer's result, be it "no date", and the fallback is not tried; when
\* no pattern is chosen or the chosen one does not match, it returns what the
\* loose fallback gives.
C9_ChosenPatternFirst ==
    Extracted =>
        LET m == IF call.ex # NoExtractor THEN Exec(call.ex, call.line)
                 ELSE NoMatch
        IN  /\ m.ok => call.ret = ToISODate(call.ex, m, call.year)
            /\ ~m.ok => call.ret = LooseDate(call.line)
            /\ call.ex = NoExtractor => call.ret = LooseDate(call.line)

\* the chosen pattern matches, its normalizer rejects the match, and the
\* result is "no date" although the fallback would have found a date
C9_Witness ==
    /\ Extracted
    /\ call.ex = 4
    /\ call.line = LineBadMonLoose
    /\ LooseDate(call.line) # Null
    /\ call.ret = Null

\* the fallback is what decides: no pattern is chosen, or the chosen one does
\* not match the line
FallbackTried ==
    call.ex = NoExtractor \/ ~Exec(call.ex, call.line).ok

\* at position i of the line: YYYY, a separator '-' or '/', MM, the same
\* separator again, DD
SameSeparatorDateAt(line, i) ==
    /\ i + 9 <= Len(line)
    /\ \A j \in {0, 1, 2, 3, 5, 6, 8, 9} : line[i + j] \in Digit
    /\ line[i + 4] \in {"-", "/"}
    /\ line[i + 7] = line[i + 4]

\* C11: the loose fallback yields a date only for a substring YYYY, '-' or
\* '/', MM, the same separator again, DD; a line that has no such substring
\* (its two separators differ, say) yields "no date".
C11_LooseSameSeparator ==
    (Extracted /\ FallbackTried) =>
        (call.ret # Null <=>
            \E i \in DOMAIN call.line : SameSeparatorDateAt(call.line, i))

\* ------------------------------------------------------------------------
\* Properties of processAll (specification Spec)
\* ------------------------------------------------------------------------

\* processAll has ended: it returned, or it rejected
Ended == pc \in {"done", "failed"}

\* C12: an input-access error (while a file is sampled or routed) aborts that
\* file alone: every remaining file of the listing is still visited, so that
\* processAll never ends with files left.
C12_RemainingFilesProcessed ==
    Ended => todo = 0

\* ------------------------------------------------------------------------
\* Properties of the output streams (specifications SpecFlow and SpecRerun)
\* ------------------------------------------------------------------------

\* C13: the router respects backpressure: it stops writing to a stream whose
\* write has returned false until the stream has drained, so that no stream's
\* buffer ever holds more than highWaterMark lines.
C13_Backpressure ==
    \A w \in DOMAIN streams : streams[w].buf <= HighWaterMark

\* the keys of the output files of the directory d
Keys(d) == {d[i].key : i \in DOMAIN d}

\* s is the beginning of t
IsPrefix(s, t) == Len(s) <= Len(t) /\ SubSeq(t, 1, Len(s)) = s

SecondRun == call.fn = "rerun" /\ call.run = 2

\* both runs have ended without an error
RerunEnded == SecondRun /\ pc = "done"

\* every bucket file holds what it held after the first run, twice
Doubled ==
    \A k \in Keys(disk) \cup Keys(call.first) :
        FileContent(disk, k) =
            FileContent(call.first, k) \o FileContent(call.first, k)

\* the pattern chosen for the input reads the year from the clock
InputReadsClock ==
    ReadsClock(chooseExtractor(sampleLines(call.input, maxSampleLines,
                                           DefaultMaxBytes)))

\* C14 as stated: after the second run on the same input, every bucket file
\* holds its content of the first run followed by the same lines again.
C14_RerunDoubles ==
    RerunEnded => Doubled

\* C14, amended: the second run never truncates or overwrites a bucket file
\* (what the file held after the first run stays its beginning), and every
\* bucket file ends up with its first-run content twice unless the chosen
\* pattern is the syslog pattern and the calendar year changed in the course
\* of the two runs.
C14_AppendNeverTruncates ==
    /\ SecondRun =>
        \A k \in Keys(call.first) :
            IsPrefix(FileContent(call.first, k), FileContent(disk, k))
    /\ (RerunEnded /\ (InputReadsClock => nowYear = FirstYear)) => Doubled

\* the second run has ended, two bucket files exist and each holds its lines
\* of the first run twice
C14_Witness ==
    /\ RerunEnded
    /\ Len(disk) = 2
    /\ \A i \in DOMAIN disk :
        /\ FileContent(call.first, disk[i].key) # <<>>
        /\ disk[i].lines = FileContent(call.first, disk[i].key)
                             \o FileContent(call.first, disk[i].key)

\* ------------------------------------------------------------------------
\* Properties of sampleLines (specification SpecSample)
\* ------------------------------------------------------------------------

Sampled == call.fn = "sampleLines" /\ call.done

\* the bytes of the first n lines of f
RECURSIVE BytesOf(_, _)
BytesOf(f, n) == IF n = 0 THEN 0 ELSE BytesOf(f, n - 1) + Len(f[n])

\* a limit is reached at line n of the file: n lines make maxLines, or their
\* bytes make maxBytes
LimitAt(n) ==
    n >= call.maxLines \/ BytesOf(call.file, n) >= call.maxBytes

\* C15: sampleLines returns a prefix of the file's lines of at most maxLines
\* lines, for every maxLines >= 0, and it stops at the first line at which the
\* line count reaches maxLines or the bytes reach the cap.
C15_SampleBounded ==
    Sampled =>
        /\ IsPrefix(call.ret, call.file)
        /\ Len(call.ret) <= call.maxLines
        /\ \A n \in 1..(Len(call.ret) - 1) : ~LimitAt(n)
        /\ Len(call.ret) < Len(call.file) => LimitAt(Len(call.ret))

\* ------------------------------------------------------------------------
\* Properties of safeOutName (specification SpecName)
\* ------------------------------------------------------------------------

Named == call.fn = "safeOutName" /\ call.done

\* the name has an extension: a '.' that is not its first character
\* (".." aside, which names no file)
HasExtension(b) == \E i \in 2..Len(b) : b[i] = "."

\* "app.2025-08-29.log"
OutAppAug29 == NameApp \o <<".">> \o KeyAug29 \o DotLog

\* "app.unknown.log"
OutAppUnknown == NameApp \o <<".">> \o BucketUnknown \o DotLog

\* C16: the output file of input <base><ext> and bucket <key> is named
\* <base>.<key><ext>, where <ext> runs from the last '.' of the input name
\* on, and is .log when the name has no extension or only a bare trailing
\* dot; app.log with 2025-08-29 gives app.2025-08-29.log and app with unknown
\* gives app.unknown.log.
C16_OutputName ==
    Named =>
        /\ ~HasExtension(call.base) =>
              call.ret = call.base \o <<".">> \o call.day \o DotLog
        /\ HasExtension(call.base) =>
              \E n \in 1..(Len(call.base) - 1) :
                  /\ call.base[n + 1] = "."
                  /\ \A j \in (n + 2)..Len(call.base) : call.base[j] # "."
                  /\ call.ret =
                        SubSeq(call.base, 1, n) \o <<".">> \o call.day
                          \o (IF n + 1 = Len(call.base) THEN DotLog
                              ELSE SubSeq(call.base, n + 1, Len(call.base)))
        /\ (call.base = NameAppLog /\ call.day = KeyAug29)
              => call.ret = OutAppAug29
        /\ (call.base = NameApp /\ call.day = BucketUnknown)
              => call.ret = OutAppUnknown

\* a name with a bare trailing dot gets the extension .log
C16_Witness ==
    /\ Named
    /\ call.base = <<"a", ".">>
    /\ call.day = BucketUnknown
    /\ call.ret = <<"a", ".">> \o BucketUnknown \o DotLog

\* ------------------------------------------------------------------------
\* Properties of the search tool (specification SpecSearch)
\* ------------------------------------------------------------------------

Searched == call.fn = "search" /\ call.done

\* the first line of the file that holds the search string
FoundLine ==
    call.file[CHOOSE i \in DOMAIN call.file :
                /\ Matches(call.file[i], call.searchString)
                /\ \A j \in 1..(i - 1) :
                      ~Matches(call.file[j], call.searchString)]

\* C17: for every contextLines >= 1, when the string is found the output
\* holds at most contextLines lines, the found line included; with
\* contextLines = 1 the output is just the found line.
C17_ContextTotal ==
    (Searched /\ call.ret.found) =>
        /\ Len(call.ret.lines) <= call.contextLines
        /\ call.contextLines = 1 => call.ret.lines = <<FoundLine>>

\* ------------------------------------------------------------------------
\* Properties of the line splitter (specification SpecWindow)
\* ------------------------------------------------------------------------

Windowed == call.fn \in {"processLogFile", "processLogFileIndexJs"} /\ call.done

\* the lines of f with 0-based index in [from, to), cut at the end of f
Slice(f, from, to) == SubSeq(f, from + 1, Min(to, Len(f)))

\* C18: in forward mode the output is exactly the input lines with 0-based
\* index in [skipLines, skipLines + maxLines), in input order, truncated at
\* the end of the file (src/src/main.js and src/index.js alike).
C18_ForwardWindow ==
    (Windowed /\ ~call.reverse) =>
        call.ret.lines =
            Slice(call.file, call.skipLines, call.skipLines + call.maxLines)

\* lines are skipped, the window is cut short by the end of the file, and
\* what is left of it is written
C18_Witness ==
    /\ Windowed
    /\ call.fn = "processLogFile"
    /\ ~call.reverse
    /\ call.skipLines = 1
    /\ call.maxLines = 3
    /\ Len(call.file) = 3
    /\ call.ret.lines = <<call.file[2], call.file[3]>>

\* C19: in reverse mode skipLines lines are skipped from the end of the file
\* and the output is the up to maxLines lines that come just before them:
\* none of the last skipLines lines of the file is written.
C19_ReverseWindow ==
    (Windowed /\ call.reverse) =>
        LET total == Len(call.file)
        IN  call.ret.lines =
                Slice(call.file, Max(0, total - call.skipLines - call.maxLines),
                      Max(0, total - call.skipLines))

\* decimal digits of a natural number
RECURSIVE Decimal(_)
Decimal(n) ==
    IF n < 10 THEN <<DigitChars[n + 1]>>
    ELSE Decimal(n \div 10) \o <<DigitChars[(n % 10) + 1]>>

\* <stem>_lines-N_skip-S.log, with _reverse before .log in reverse mode, for
\* the input <stem>.log
ParameterName(fileName, n, k, reverse) ==
    SubSeq(fileName, 1, Len(fileName) - 4)
        \o <<"_", "l", "i", "n", "e", "s", "-">> \o Decimal(n)
        \o <<"_", "s", "k", "i", "p", "-">> \o Decimal(k)
        \o (IF reverse THEN <<"_", "r", "e", "v", "e", "r", "s", "e">> ELSE <<>>)
        \o DotLog

\* C20: the output file is named after the parameters, input.log becoming
\* input_lines-N_skip-S.log (with _reverse in reverse mode), so that its name
\* differs from the input file's.
C20_ParameterName ==
    (Windowed /\ call.fn = "processLogFile") =>
        /\ call.ret.outputName =
              ParameterName(call.fileName, call.maxLines, call.skipLines,
                            call.reverse)
        /\ call.ret.outputName # call.fileName

\* ------------------------------------------------------------------------
\* Further properties of the day router/writer (specification Spec)
\* ------------------------------------------------------------------------

\* C21: for every line, the date under which the line is routed is the date
\* then stored in lastDay (both come from one extraction), also when the
\* chosen pattern is the syslog pattern and the calendar year changes between
\* evaluations.
C21_OneExtraction ==
    InFile =>
        \A i \in 1..count :
            /\ RoutedDate(i) = StoredDate(i)
            /\ RoutedDate(i) # Null => (log[i].key = RoutedDate(i)
                                        /\ LastDayAfter(i) = log[i].key)

\* the number of lines written to the streams of the first n writers
RECURSIVE WrittenTo(_)
WrittenTo(n) ==
    IF n = 0 THEN 0
    ELSE WrittenTo(n - 1) + Len(streams[writers[n].w].data)

\* C22: every line read is written exactly once, to exactly one bucket, with
\* a line terminator after it: the lines written over all buckets are as many
\* as the lines read, and every bucket holds its lines in the order of the
\* input.
C22_EveryLineOnce ==
    InFile =>
        /\ WrittenTo(Len(writers)) = count
        /\ \A i, j \in DOMAIN writers :
              writers[i].w = writers[j].w => i = j
        /\ \A i \in DOMAIN writers :
              /\ streams[writers[i].w].data = LinesOf(writers[i].key, count)
              /\ \A n \in DOMAIN streams[writers[i].w].data :
                    LET l == streams[writers[i].w].data[n]
                    IN  l[Len(l)] = "\n"
        /\ \A n \in 1..count :
              Cardinality({i \in DOMAIN writers : writers[i].key = log[n].key}) = 1

\* three lines have gone to three buckets, one line each
C22_Witness ==
    /\ pc = "split"
    /\ count = 3
    /\ Len(writers) = 3
    /\ \A i \in DOMAIN writers : Len(streams[writers[i].w].data) = 1

\* ------------------------------------------------------------------------
\* Further properties of the search tool (specification SpecSearch)
\* ------------------------------------------------------------------------

\* the position of the first line of the file that holds the search string
FoundAt ==
    CHOOSE i \in DOMAIN call.file :
        /\ Matches(call.file[i], call.searchString)
        /\ \A j \in 1..(i - 1) : ~Matches(call.file[j], call.searchString)

\* C23: the extracted lines are one contiguous run of the input's lines, in
\* input order, that holds the first matching line once and at most
\* floor((contextLines - 1) / 2) lines before it; no input line is written
\* twice.
C23_ContiguousRun ==
    (Searched /\ call.ret.found) =>
        \E a \in 1..FoundAt, b \in FoundAt..Len(call.file) :
            /\ call.ret.lines = SubSeq(call.file, a, b)
            /\ FoundAt - a <= Before(call.contextLines)

\* ------------------------------------------------------------------------
\* The flush cycle (specification Spec)
\* ------------------------------------------------------------------------

\* the number of the line with which the stream of key k was created
FirstLineOf(k) ==
    CHOOSE i \in 1..count :
        log[i].key = k /\ \A j \in 1..(i - 1) : log[j].key # k

\* the positive multiples of FlushEvery among from..to
Multiples(from, to) == {n \in from..to : n > 0 /\ n % FlushEvery = 0}

\* C24: the flush cycle runs exactly when the number of lines processed is a
\* positive multiple of the flush period, on every stream the writer set
\* holds at that time, and it leaves lastDay, the set of open buckets and the
\* lines written to each bucket as they are.
C24_FlushCycle ==
    InFile =>
        /\ \A i \in DOMAIN writers :
            LET s == streams[writers[i].w]
            IN  /\ s.cycles =
                      Cardinality(Multiples(FirstLineOf(writers[i].key), count))
                /\ s.corked = 0
                /\ s.data = LinesOf(writers[i].key, count)
                /\ pc = "split" => s.st = "open"
        /\ lastDay = LastDated(count)
        /\ {writers[i].key : i \in DOMAIN writers} = {log[i].key : i \in 1..count}

\* the flush cycle has run once, on the one stream there was; a stream
\* created after it has not been through it
C24_Witness ==
    /\ pc = "split"
    /\ count = FlushEvery + 1
    /\ Len(writers) = 2
    /\ streams[writers[1].w].cycles = 1
    /\ streams[writers[2].w].cycles = 0
    /\ Len(streams[writers[1].w].data) = FlushEvery

\* ------------------------------------------------------------------------
\* Further properties of extractDate (specification SpecExtract)
\* ------------------------------------------------------------------------

\* the two digits of a number 0..99
TwoDigits(n) == <<DigitChars[(n \div 10) + 1], DigitChars[(n % 10) + 1]>>

\* the two-digit numbers of the months, 01..12
MonthNumbers == {TwoDigits(n) : n \in 1..12}

\* C25: every date extractDate returns has the shape of four digits, '-',
\* two digits, '-', two digits; a one-digit day matched by a month-name or
\* syslog pattern is padded to two digits, and a month name becomes its
\* two-digit number in 01..12.
C25_CanonicalShape ==
    (Extracted /\ call.ret # Null) =>
        /\ IsDateString(call.ret)
        /\ (call.ex \in {4, 5, 6} /\ Exec(call.ex, call.line).ok) =>
              LET m == Exec(call.ex, call.line)
                  dd == m.groups[IF call.ex = 4 THEN 1 ELSE 2]
              IN  /\ SubSeq(call.ret, 6, 7) \in MonthNumbers
                  /\ SubSeq(call.ret, 9, 10) =
                        (IF Len(dd) = 1 THEN <<"0">> \o dd ELSE dd)

\* the syslog line "Aug 9 14:23:45 up": month 08, day 09
C25_Witness ==
    /\ Extracted
    /\ call.ex = 6
    /\ call.line = LineSyslog
    /\ SubSeq(call.ret, 6, 10) = <<"0", "8", "-", "0", "9">>

\* ------------------------------------------------------------------------
\* Output files of two input files (specification SpecNames)
\* ------------------------------------------------------------------------

NamedBoth == call.fn = "getWriter" /\ call.done

\* C26: two different input files of one run never write to the same output
\* file: for distinct input file names and any two buckets, the output names
\* that safeOutName gives are distinct.
C26_DistinctOutputs ==
    (NamedBoth /\ call.base # call.other) => call.ret # call.otherRet

\* ------------------------------------------------------------------------
\* The detection result of a file (specification SpecLock)
\* ------------------------------------------------------------------------

\* what chooseExtractor gives for the initial sample of the current file
DetectedAtStart ==
    chooseExtractor(sampleLines(file, maxSampleLines, DefaultMaxBytes))

\* C27: the detection result is computed once per input file, from its
\* initial sample, and the same pattern (or none) extracts the date of every
\* line of the file: while the file is read and closed the extractor is the
\* one chosen from the sample, and every line was routed by it, also a line
\* that matches another pattern.
C27_DetectedOnce ==
    InFile =>
        /\ sample = sampleLines(file, maxSampleLines, DefaultMaxBytes)
        /\ ex = DetectedAtStart
        /\ \A i \in 1..count :
              log[i].key = RoutingKey(extractDate(file[i], DetectedAtStart, log[i].y1),
                                      log[i].prev, unknownBucket)

\* a sample of one ISO line chose the ISO pattern, and the second line, which
\* only the syslog pattern matches, went to the day of the first
C27_Witness ==
    /\ pc = "split"
    /\ count = 2
    /\ Len(sample) = 1
    /\ ex # NoExtractor
    /\ ~Exec(ex, file[2]).ok
    /\ \E e \in DOMAIN extractors : Exec(e, file[2]).ok
    /\ log[2].key = log[1].key
    /\ log[1].key # unknownBucket

====
